---- MODULE Spec2Model ----
(***************************************************************************)
(* A model of the header translator's driver                               *)
(* (crates/header-translator/src/main.rs): the per-entity dispatch of      *)
(* parse_sdk, the cross-target comparison and the platform/target loop of  *)
(* main.                                                                   *)
(*                                                                         *)
(* Strings are sequences of tokens: a token is either a separator ("." or  *)
(* "/") or a name part that holds no separator, so "Foo/Bar.h" is          *)
(* <<"Foo", "/", "Bar", ".", "h">>.  A path is a sequence of components,   *)
(* each component a string without "/".                                    *)
(***************************************************************************)
EXTENDS Integers, Sequences, FiniteSets, TLC

VARIABLES
    pc,             \* parse_sdk: "idle" | "visiting" | "returned" | "panicked"
    configs,        \* the keys of the configs map handed to parse_sdk
    preprocessing,  \* parse_sdk's local flag (main.rs:150)
    result,         \* parse_sdk's local map library name -> Library (main.rs:151)
    cur,            \* the entity the visit_children callback ran on last
    nvisited,       \* how many entities the callback has run on in this call
    fatal,          \* the message of the panic that ended the call, "" for none
    ncalls,         \* how many parse_sdk calls have started
    entered,        \* history: files.entry(..) calls of this call, per <<library, file>>
    created,        \* history: File::new calls of this call, per <<library, file>>
    parsed,         \* history: Stmt::parse outputs of this call, per <<library, file>>
    data1,          \* compare_results: its first argument
    data2,          \* compare_results: its second argument
    cmp,            \* compare_results: [done, panic], panic "" for a normal return
    mpc,            \* main: where the run stands
    sdks,           \* main: the platforms of the SDKs found, in iteration order
    llvm_targets,   \* main: how many llvm targets the match enables per platform
    si,             \* main: index into sdks of the platform in the outer loop
    ti,             \* main: index of the llvm target in the inner loop
    mresult,        \* main: the local `result` (an Option) of the outer loop body
    curr_result,    \* main: the local `curr_result` of the inner loop body
    final_result,   \* main: the local `final_result` (an Option)
    written,        \* main: the frameworks written so far
    outs,           \* history: what parse_sdk returned per target of this platform
    diffs,          \* history: the compare_results calls of this platform
    dirs,           \* main: the platforms developer_dir.platforms() returned
    di,             \* main: index into dirs of the platform the map closure runs on
    cands,          \* history: what find_sdks returned for the platform handled last
    dfatal,         \* history: the platform the panic message of the closure names
    xentity,        \* extract_framework_name: the entity it is applied to
    xret,           \* extract_framework_name: [done, panic, val]
    object,         \* NSFastEnumerator: the collection enumerated
    state,          \* NSFastEnumerator: the NSFastEnumerationState
    ptr,            \* NSFastEnumerator: the next item of the batch
    end,            \* NSFastEnumerator: one past the last item of the batch
    buf,            \* NSFastEnumerator: the buffer handed to the collection
    epc,            \* NSFastEnumerator: "iterating" | "exhausted" | "panicked"
    yielded,        \* history: the items next() returned, in order
    refill,         \* history: the last update_buf call
    deref           \* history: the pointer next() read through last

\* parse_sdk's state
pvars == <<pc, preprocessing, result, cur, nvisited, ncalls, entered, created, parsed>>

\* compare_results' state
cvars == <<data1, data2, cmp>>

\* main's state
mvars == <<mpc, sdks, llvm_targets, si, ti, mresult, curr_result, final_result, written,
           outs, diffs>>

\* the SDK discovery of main
dvars == <<dirs, di, cands, dfatal>>

\* extract_framework_name's state
xvars == <<xentity, xret>>

\* NSFastEnumerator's state
evars == <<object, state, ptr, end, buf, epc, yielded, refill, deref>>

vars == <<configs, fatal, pvars, cvars, mvars, dvars, xvars, evars>>

(***************************************************************************)
(* Bounds                                                                  *)
(***************************************************************************)
\* entities one parse_sdk call visits, entity by entity
MaxEntities == 3

\* entities of one translation unit when main parses it in one step
MaxUnitEntities == 2

\* llvm targets the match on sdk.platform enables per platform
MaxTargets == 3

\* Stmts per File of the models compare_results is applied to
MaxCmpStmts == 1

\* parse_sdk calls of one run
MaxCalls == 2

\* SDK candidates find_sdks returns for one platform
MaxCandidates == 2

\* path components of a source location below its root directory
MaxPathLen == 3

\* elements of the collection an NSFastEnumerator runs over
MaxItems == 17

\* changes of the collection's mutation counter during one enumeration
MaxMutations == 1

(***************************************************************************)
(* Option values                                                           *)
(***************************************************************************)
None == [some |-> FALSE]

Some(x) == [some |-> TRUE, val |-> x]

\* ptr::null()
Null == [region |-> "null"]

(***************************************************************************)
(* String and path helpers of the standard library, on token strings       *)
(***************************************************************************)
\* str::strip_suffix
StripSuffix(s, suf) ==
    IF Len(s) >= Len(suf) /\ SubSeq(s, Len(s) - Len(suf) + 1, Len(s)) = suf
    THEN Some(SubSeq(s, 1, Len(s) - Len(suf)))
    ELSE None

\* the index of the first token of s equal to t, 0 when there is none
IndexOf(s, t) ==
    IF \E i \in 1..Len(s) : s[i] = t
    THEN CHOOSE i \in 1..Len(s) : s[i] = t /\ \A j \in 1..(i - 1) : s[j] # t
    ELSE 0

\* the index of the last token of s equal to t, 0 when there is none
LastIndexOf(s, t) ==
    IF \E i \in 1..Len(s) : s[i] = t
    THEN CHOOSE i \in 1..Len(s) : s[i] = t /\ \A j \in (i + 1)..Len(s) : s[j] # t
    ELSE 0

\* str::split('/'): the pieces between the separators, at least one piece
RECURSIVE Split(_)
Split(s) ==
    LET i == IndexOf(s, "/")
    IN  IF i = 0 THEN <<s>>
        ELSE <<SubSeq(s, 1, i - 1)>> \o Split(SubSeq(s, i + 1, Len(s)))

\* Path::strip_prefix: the components after base, when base is a prefix
StripPrefix(path, base) ==
    IF Len(path) >= Len(base) /\ SubSeq(path, 1, Len(base)) = base
    THEN Some(SubSeq(path, Len(base) + 1, Len(path)))
    ELSE None

\* mutant of FileStem: the name is cut at its first dot instead of its last
FileStemAtFirstDot(path) ==
    IF Len(path) = 0 THEN None
    ELSE LET name == path[Len(path)]
             dot == IndexOf(name, ".")
         IN  IF name = <<".", ".">> THEN None
             ELSE IF dot <= 1 THEN Some(name)
             ELSE Some(SubSeq(name, 1, dot - 1))

\* Path::file_stem: of the last component; none for an empty path or ".."
FileStem(path) ==
    IF Len(path) = 0 THEN None
    ELSE LET name == path[Len(path)]
             dot == LastIndexOf(name, ".")
         IN  IF name = <<".", ".">> THEN None
             ELSE IF dot <= 1 THEN Some(name)
             ELSE Some(SubSeq(name, 1, dot - 1))

(***************************************************************************)
(* The intermediate model (header_translator::{Library, File, Stmt}).      *)
(* A File is the sequence of Stmts added to it since File::new.            *)
(***************************************************************************)
\* Library::new()
LibraryNew == [files |-> <<>>]

\* File::new(&config)
FileNew(config) == [stmts |-> <<>>]

\* File::add_stmt(stmt)
AddStmt(file, stmt) == [file EXCEPT !.stmts = Append(@, stmt)]

\* Stmt::parse(&entity, &config): the grammar's output for the entity
StmtParse(entity, config) == entity.stmts

(***************************************************************************)
(* Outcomes of a call: a value, or a panic with its message                *)
(***************************************************************************)
Ret(v) == [panic |-> "", val |-> v]

Panic(msg) == [panic |-> msg]

\* sdk.path.join("System/Library/Frameworks")
FrameworkDir == << <<"sdk">>, <<"System">>, <<"Library">>, <<"Frameworks">> >>

\* extract_framework_name(&entity, &framework_dir)
extract_framework_name(entity, framework_dir) ==
    IF ~entity.location.some THEN Ret(None)
    ELSE IF ~entity.location.val.file.some THEN Ret(None)
    ELSE LET path == entity.location.val.file.val
             rel == StripPrefix(path, framework_dir)
         IN  IF ~rel.some THEN Ret(None)
             ELSE IF Len(rel.val) = 0 THEN Panic("components next")
             ELSE LET lib == StripSuffix(rel.val[1], <<".", "framework">>)
                  IN  IF ~lib.some THEN Panic("framework fileending")
                      ELSE LET stem == FileStem(Tail(rel.val))
                           IN  IF ~stem.some THEN Panic("path file stem")
                               ELSE Ret(Some(<<lib.val, stem.val>>))

(***************************************************************************)
(* parse_sdk: the visit_children callback.  A dispatch state st is         *)
(* [preprocessing, result]; an outcome adds panic (the message, "" for     *)
(* none), entries, the <<library, file>> pairs files.entry(..) was called   *)
(* for, and newFiles, the pairs File::new ran for.                         *)
(***************************************************************************)
Outcome(pre, res, msg, new) ==
    [preprocessing |-> pre, result |-> res, panic |-> msg, newFiles |-> new,
     entries |-> <<>>]

\* mutant of EntryOrInsert: library.files.insert(included, File::new(&config))
EntryAlwaysInserts(st, library_name, included) ==
    [Outcome(st.preprocessing,
             [st.result EXCEPT ![library_name].files =
                  (included :> FileNew(library_name)) @@ @],
             "", << <<library_name, included>> >>)
     EXCEPT !.entries = << <<library_name, included>> >>]

\* library.files.entry(included).or_insert_with(|| File::new(&config))
EntryOrInsert(st, library_name, included) ==
    LET out == IF included \in DOMAIN st.result[library_name].files
               THEN Outcome(st.preprocessing, st.result, "", <<>>)
               ELSE Outcome(st.preprocessing,
                            [st.result EXCEPT ![library_name].files =
                                 @ @@ (included :> FileNew(library_name))],
                            "", << <<library_name, included>> >>)
    IN  [out EXCEPT !.entries = << <<library_name, included>> >>]

\* mutant of InclusionBranch: the test `included != library_name` is missing
InclusionBranchNoUmbrellaTest(st, library_name, entity) ==
    IF ~entity.name.some
    THEN Outcome(st.preprocessing, st.result, "inclusion name", <<>>)
    ELSE LET parts == Split(entity.name.val)
             framework == parts[1]
         IN  IF framework # library_name
             THEN Outcome(st.preprocessing, st.result, "", <<>>)
             ELSE IF Len(parts) < 2
             THEN Outcome(st.preprocessing, st.result, "inclusion name has file", <<>>)
             ELSE LET included == StripSuffix(parts[2], <<".", "h">>)
                  IN  IF ~included.some
                      THEN Outcome(st.preprocessing, st.result,
                                   "inclusion name file is header", <<>>)
                      ELSE IF Len(parts) - 2 # 0
                      THEN Outcome(st.preprocessing, st.result, "invalid inclusion", <<>>)
                      ELSE EntryOrInsert(st, library_name, included.val)

\* mutant of InclusionBranch: the test `iter.count() != 0` is missing
InclusionBranchNoSegmentCount(st, library_name, entity) ==
    IF ~entity.name.some
    THEN Outcome(st.preprocessing, st.result, "inclusion name", <<>>)
    ELSE LET parts == Split(entity.name.val)
             framework == parts[1]
         IN  IF framework # library_name
             THEN Outcome(st.preprocessing, st.result, "", <<>>)
             ELSE IF Len(parts) < 2
             THEN Outcome(st.preprocessing, st.result, "inclusion name has file", <<>>)
             ELSE LET included == StripSuffix(parts[2], <<".", "h">>)
                  IN  IF ~included.some
                      THEN Outcome(st.preprocessing, st.result,
                                   "inclusion name file is header", <<>>)
                      ELSE IF included.val # library_name
                      THEN EntryOrInsert(st, library_name, included.val)
                      ELSE Outcome(st.preprocessing, st.result, "", <<>>)

\* the arm EntityKind::InclusionDirective if preprocessing
InclusionBranch(st, library_name, entity) ==
    IF ~entity.name.some
    THEN Outcome(st.preprocessing, st.result, "inclusion name", <<>>)
    ELSE LET parts == Split(entity.name.val)
             framework == parts[1]
         IN  IF framework # library_name
             THEN Outcome(st.preprocessing, st.result, "", <<>>)
             ELSE IF Len(parts) < 2
             THEN Outcome(st.preprocessing, st.result, "inclusion name has file", <<>>)
             ELSE LET included == StripSuffix(parts[2], <<".", "h">>)
                  IN  IF ~included.some
                      THEN Outcome(st.preprocessing, st.result,
                                   "inclusion name file is header", <<>>)
                      ELSE IF Len(parts) - 2 # 0
                      THEN Outcome(st.preprocessing, st.result, "invalid inclusion", <<>>)
                      ELSE IF included.val # library_name
                      THEN EntryOrInsert(st, library_name, included.val)
                      ELSE Outcome(st.preprocessing, st.result, "", <<>>)

\* for stmt in stmts { file.add_stmt(stmt) }
RECURSIVE AddAll(_, _)
AddAll(file, stmts) ==
    IF stmts = <<>> THEN file
    ELSE AddAll(AddStmt(file, Head(stmts)), Tail(stmts))

\* mutant of DeclBranch: the File is created on demand instead of expected
DeclBranchCreatesFile(st, library_name, file_name, entity) ==
    LET files == st.result[library_name].files
        file == IF file_name \in DOMAIN files THEN files[file_name]
                ELSE FileNew(library_name)
    IN  Outcome(FALSE,
                [st.result EXCEPT ![library_name].files =
                     (file_name :> AddAll(file, StmtParse(entity, library_name))) @@ @],
                "",
                IF file_name \in DOMAIN files THEN <<>>
                ELSE << <<library_name, file_name>> >>)

\* mutant of DeclBranch: the entity's Stmts replace the File's instead of extending them
DeclBranchOverwrites(st, library_name, file_name, entity) ==
    IF file_name \notin DOMAIN st.result[library_name].files
    THEN Outcome(FALSE, st.result, "file", <<>>)
    ELSE Outcome(FALSE,
                 [st.result EXCEPT ![library_name].files[file_name] =
                      AddAll(FileNew(library_name), StmtParse(entity, library_name))],
                 "", <<>>)

\* mutant of DeclBranch: `preprocessing = false` is missing
DeclBranchKeepsPhase(st, library_name, file_name, entity) ==
    IF file_name \notin DOMAIN st.result[library_name].files
    THEN Outcome(st.preprocessing, st.result, "file", <<>>)
    ELSE Outcome(st.preprocessing,
                 [st.result EXCEPT ![library_name].files[file_name] =
                                       AddAll(@, StmtParse(entity, library_name))],
                 "", <<>>)

\* the arm _ => { preprocessing = false; ... }
DeclBranch(st, library_name, file_name, entity) ==
    IF file_name \notin DOMAIN st.result[library_name].files
    THEN Outcome(FALSE, st.result, "file", <<>>)
    ELSE Outcome(FALSE,
                 [st.result EXCEPT ![library_name].files[file_name] =
                                       AddAll(@, StmtParse(entity, library_name))],
                 "", <<>>)

\* mutant of KindBranch: the arm for MacroDefinition is missing
KindBranchNoMacroDefinitionArm(st, library_name, file_name, entity) ==
    IF entity.kind = "InclusionDirective" /\ st.preprocessing
    THEN InclusionBranch(st, library_name, entity)
    ELSE IF entity.kind = "MacroExpansion" /\ st.preprocessing
    THEN Outcome(st.preprocessing, st.result, "", <<>>)
    ELSE DeclBranch(st, library_name, file_name, entity)

\* mutant of KindBranch: the arm for InclusionDirective has no `if preprocessing` guard
KindBranchInclusionUnguarded(st, library_name, file_name, entity) ==
    IF entity.kind = "InclusionDirective"
    THEN InclusionBranch(st, library_name, entity)
    ELSE IF entity.kind = "MacroExpansion" /\ st.preprocessing
    THEN Outcome(st.preprocessing, st.result, "", <<>>)
    ELSE IF entity.kind = "MacroDefinition" /\ st.preprocessing
    THEN Outcome(st.preprocessing, st.result, "", <<>>)
    ELSE DeclBranch(st, library_name, file_name, entity)

\* the match on entity.get_kind() with its guards
KindBranch(st, library_name, file_name, entity) ==
    IF entity.kind = "InclusionDirective" /\ st.preprocessing
    THEN InclusionBranch(st, library_name, entity)
    ELSE IF entity.kind = "MacroExpansion" /\ st.preprocessing
    THEN Outcome(st.preprocessing, st.result, "", <<>>)
    ELSE IF entity.kind = "MacroDefinition" /\ st.preprocessing
    THEN Outcome(st.preprocessing, st.result, "", <<>>)
    ELSE DeclBranch(st, library_name, file_name, entity)

\* mutant of Dispatch: the lookup configs.get(&library_name) is not made
DispatchNoConfigTest(st, entity, cfgs) ==
    LET found == extract_framework_name(entity, FrameworkDir)
    IN  IF found.panic # ""
        THEN Outcome(st.preprocessing, st.result, found.panic, <<>>)
        ELSE IF ~found.val.some
        THEN Outcome(st.preprocessing, st.result, "", <<>>)
        ELSE LET library_name == found.val.val[1]
                 file_name == found.val.val[2]
             IN  IF library_name \notin DOMAIN st.result
                 THEN Outcome(st.preprocessing, st.result, "library", <<>>)
                 ELSE KindBranch(st, library_name, file_name, entity)

\* the whole callback body, for the configs with keys cfgs
Dispatch(st, entity, cfgs) ==
    LET found == extract_framework_name(entity, FrameworkDir)
    IN  IF found.panic # ""
        THEN Outcome(st.preprocessing, st.result, found.panic, <<>>)
        ELSE IF ~found.val.some
        THEN Outcome(st.preprocessing, st.result, "", <<>>)
        ELSE LET library_name == found.val.val[1]
                 file_name == found.val.val[2]
             IN  IF library_name \notin cfgs
                 THEN Outcome(st.preprocessing, st.result, "", <<>>)
                 ELSE IF library_name \notin DOMAIN st.result
                 THEN Outcome(st.preprocessing, st.result, "library", <<>>)
                 ELSE KindBranch(st, library_name, file_name, entity)

\* mutant of InitialResult: no Library is allocated before the traversal
InitialResultEmpty(cfgs) == <<>>

\* let mut result: BTreeMap<_, _> = configs.iter().map(...).collect()
InitialResult(cfgs) == [name \in cfgs |-> LibraryNew]

(***************************************************************************)
(* The inputs: framework names, source locations, inclusion names and      *)
(* grammar outputs the entities of a translation unit are drawn from       *)
(***************************************************************************)
Foo == <<"Foo">>

Bar == <<"Bar">>

Baz == <<"Baz">>

\* the frameworks a translation-config.toml may exist for
Frameworks == {Foo, Baz}

\* <framework_dir>/<fw>.framework/Headers/<header>.h
HeaderPath(fw, header) ==
    FrameworkDir \o << fw \o <<".", "framework">>, <<"Headers">>, header \o <<".", "h">> >>

At(path) == Some([file |-> Some(path)])

Locations ==
    { None,                                             \* get_location() is None
      Some([file |-> None]),                            \* a location in no file
      At(<< <<"usr">>, <<"include">>, <<"objc", ".", "h">> >>),
      At(HeaderPath(Foo, Foo)),
      At(HeaderPath(Foo, Bar)),
      At(HeaderPath(Baz, Baz)),
      At(FrameworkDir \o << <<"Foo">>, <<"Bar", ".", "h">> >>) }

InclusionNames ==
    { None,
      Some(<<"Foo", "/", "Bar", ".", "h">>),
      Some(<<"Foo", "/", "Foo", ".", "h">>),
      Some(<<"Baz", "/", "Bar", ".", "h">>),
      Some(<<"Foo">>),
      Some(<<"Foo", "/", "Bar">>),
      Some(<<"Foo", "/", "Headers", "/", "Bar", ".", "h">>),
      Some(<<"Foo", "/", "Bar", ".", "h", "/", "Sub", ".", "h">>),
      Some(<<"Foo", "/", "Baz", ".", "h">>) }

\* what Stmt::parse yields for one entity: zero or more Stmts
StmtLists == { <<>>, <<"a">>, <<"b", "a">> }

PreKinds == {"InclusionDirective", "MacroExpansion", "MacroDefinition"}

\* "ObjCInterfaceDecl" stands for every kind the first three arms do not name
Entities ==
    [kind : {"InclusionDirective"}, location : Locations,
     name : InclusionNames, stmts : {<<"a">>}]
    \cup [kind : {"MacroExpansion", "MacroDefinition"}, location : Locations,
          name : {None}, stmts : {<<"a">>}]
    \cup [kind : {"ObjCInterfaceDecl"}, location : Locations,
          name : {Some(Bar)}, stmts : StmtLists]

NoEntity == [kind |-> "none"]

(***************************************************************************)
(* One parse_sdk call, entity by entity                                    *)
(***************************************************************************)
\* the history of Stmt::parse outputs, h, with out appended under key
Logged(h, key, out) ==
    IF key \in DOMAIN h THEN [h EXCEPT ![key] = @ \o out] ELSE h @@ (key :> out)

\* a history of calls per key, c, with the calls of news counted
RECURSIVE Counted(_, _)
Counted(c, news) ==
    IF news = <<>> THEN c
    ELSE Counted(IF Head(news) \in DOMAIN c
                 THEN [c EXCEPT ![Head(news)] = @ + 1]
                 ELSE c @@ (Head(news) :> 1),
                 Tail(news))

\* whether the callback hands entity e to the `_` arm when it runs in phase pre
ToDeclArm(e, pre, cfgs) ==
    LET found == extract_framework_name(e, FrameworkDir)
    IN  /\ found.panic = ""
        /\ found.val.some
        /\ found.val.val[1] \in cfgs
        /\ ~(pre /\ e.kind \in PreKinds)

InitParse ==
    /\ pc = "idle"
    /\ configs \in SUBSET Frameworks
    /\ preprocessing = TRUE
    /\ result = <<>>
    /\ cur = NoEntity
    /\ nvisited = 0
    /\ fatal = ""
    /\ ncalls = 0
    /\ entered = <<>>
    /\ created = <<>>
    /\ parsed = <<>>

\* mutant of ParseStart: the flag outlives the call instead of being a fresh local
ParseStartKeepsPhase ==
    /\ pc \in {"idle", "returned"}
    /\ ncalls < MaxCalls
    /\ ncalls' = ncalls + 1
    /\ pc' = "visiting"
    /\ result' = InitialResult(configs)
    /\ cur' = NoEntity
    /\ nvisited' = 0
    /\ entered' = <<>>
    /\ created' = <<>>
    /\ parsed' = <<>>
    /\ UNCHANGED <<configs, fatal, preprocessing, cvars, mvars,
                   dvars, xvars, evars>>

\* parse_sdk is called: lines 150-154
ParseStart ==
    /\ pc \in {"idle", "returned"}
    /\ ncalls < MaxCalls
    /\ ncalls' = ncalls + 1
    /\ pc' = "visiting"
    /\ preprocessing' = TRUE
    /\ result' = InitialResult(configs)
    /\ cur' = NoEntity
    /\ nvisited' = 0
    /\ entered' = <<>>
    /\ created' = <<>>
    /\ parsed' = <<>>
    /\ UNCHANGED <<configs, fatal, cvars, mvars,
                   dvars, xvars, evars>>

\* the callback runs on the next top-level entity: lines 156-212
Visit ==
    /\ pc = "visiting"
    /\ nvisited < MaxEntities
    /\ \E e \in Entities :
         LET out == Dispatch([preprocessing |-> preprocessing, result |-> result],
                             e, configs)
         IN  /\ cur' = e
             /\ nvisited' = nvisited + 1
             /\ preprocessing' = out.preprocessing
             /\ result' = out.result
             /\ pc' = IF out.panic = "" THEN "visiting" ELSE "panicked"
             /\ fatal' = out.panic
             /\ entered' = Counted(entered, out.entries)
             /\ created' = Counted(created, out.newFiles)
             /\ parsed' = IF out.panic = "" /\ ToDeclArm(e, preprocessing, configs)
                          THEN Logged(parsed,
                                      extract_framework_name(e, FrameworkDir).val.val,
                                      e.stmts)
                          ELSE parsed
    /\ UNCHANGED <<configs, ncalls, cvars, mvars,
                   dvars, xvars, evars>>

\* visit_children is done and parse_sdk returns result: line 214
ParseReturn ==
    /\ pc = "visiting"
    /\ pc' = "returned"
    /\ UNCHANGED <<configs, preprocessing, result, cur, nvisited, fatal, ncalls,
                   entered, created, parsed, cvars, mvars,
                   dvars, xvars, evars>>

(***************************************************************************)
(* compare_results                                                         *)
(***************************************************************************)
\* header_translator::compare_btree with Library::compare as its closure: it
\* returns normally on equal maps and aborts on the differences it catches;
\* `catches` says whether it catches the difference of these two maps
compare_btree(d1, d2, catches) ==
    IF d1 # d2 /\ catches THEN "compare_btree" ELSE ""

\* mutant of compare_results: the closing assert_eq!(data1, data2) is missing
compare_results_no_assert(d1, d2, catches) == compare_btree(d1, d2, catches)

\* compare_results(data1, data2): the panic message, "" for a normal return
compare_results(d1, d2, catches) ==
    LET first == compare_btree(d1, d2, catches)
    IN  IF first # "" THEN first
        ELSE IF d1 # d2 THEN "assertion failed: data1 == data2"
        ELSE ""

\* the sequences over S of length at most n
SeqsUpTo(S, n) == UNION { [1..k -> S] : k \in 0..n }

\* the maps compare_results is applied to: any key set, any Files
CmpFiles == { [stmts |-> q] : q \in SeqsUpTo({"a", "b"}, MaxCmpStmts) }

CmpLibraries ==
    { [files |-> f] : f \in UNION { [K -> CmpFiles] : K \in SUBSET {Bar} } }

CmpModels == UNION { [K -> CmpLibraries] : K \in SUBSET Frameworks }

InitCompare ==
    /\ data1 \in CmpModels
    /\ data2 \in CmpModels
    /\ cmp = [done |-> FALSE, panic |-> ""]

\* compare_results runs: lines 309-317
Compare ==
    /\ ~cmp.done
    /\ \E catches \in BOOLEAN :
         cmp' = [done |-> TRUE, panic |-> compare_results(data1, data2, catches)]
    /\ UNCHANGED <<data1, data2, configs, fatal, pvars, mvars,
                   dvars, xvars, evars>>

(***************************************************************************)
(* main: the loop over the SDKs and their llvm targets, then the output    *)
(***************************************************************************)
\* parse_sdk's traversal in one piece: the callback on each entity in turn
RECURSIVE VisitAll(_, _, _)
VisitAll(st, unit, cfgs) ==
    IF unit = <<>> THEN Outcome(st.preprocessing, st.result, "", <<>>)
    ELSE LET out == Dispatch(st, Head(unit), cfgs)
         IN  IF out.panic # "" THEN out
             ELSE VisitAll([preprocessing |-> out.preprocessing, result |-> out.result],
                           Tail(unit), cfgs)

\* parse_sdk(&index, &sdk, llvm_target, &configs) on a translation unit
parse_sdk(unit, cfgs) ==
    VisitAll([preprocessing |-> TRUE, result |-> InitialResult(cfgs)], unit, cfgs)

\* the entities of the translation units main parses
UnitEntities ==
    { [kind |-> "InclusionDirective", location |-> At(HeaderPath(Foo, Foo)),
       name |-> Some(<<"Foo", "/", "Bar", ".", "h">>), stmts |-> <<>>],
      [kind |-> "ObjCInterfaceDecl", location |-> At(HeaderPath(Foo, Bar)),
       name |-> Some(Bar), stmts |-> <<"a">>],
      [kind |-> "ObjCInterfaceDecl", location |-> At(HeaderPath(Foo, Bar)),
       name |-> Some(Bar), stmts |-> <<"b">>] }

Units == SeqsUpTo(UnitEntities, MaxUnitEntities)

\* the platforms of the developer directory; "AppleTvOs" stands for every
\* platform the match on sdk.platform sends to `_ => continue`
Platforms == {"MacOsX", "IPhoneOs", "AppleTvOs"}

\* the platforms the match on sdk.platform has an arm for
TablePlatforms == {"MacOsX", "IPhoneOs"}

\* the order a BTreeMap<String, Library> iterates its keys in
LibraryOrder == <<Baz, Foo>>

\* main before the loop.  The table of lines 55-80 enables one target for
\* MacOsX and none for IPhoneOs; llvm_targets ranges over every table with up
\* to MaxTargets targets per arm, that one included.
InitMain ==
    /\ mpc = "loop"
    /\ sdks \in { q \in [1..Cardinality(Platforms) -> Platforms] :
                    \A i, j \in DOMAIN q : q[i] = q[j] => i = j }
    /\ llvm_targets \in [TablePlatforms -> 0..MaxTargets]
    /\ si = 1
    /\ ti = 0
    /\ mresult = None
    /\ curr_result = <<>>
    /\ final_result = None
    /\ written = {}
    /\ outs = <<>>
    /\ diffs = <<>>

\* `_ => continue`: the platform has no arm in the match, lines 55-80
SkipPlatform ==
    /\ mpc = "loop"
    /\ si <= Len(sdks)
    /\ sdks[si] \notin TablePlatforms
    /\ si' = si + 1
    /\ UNCHANGED <<mpc, sdks, llvm_targets, ti, mresult, curr_result, final_result, written,
                   outs, diffs, configs, fatal, pvars, cvars,
                   dvars, xvars, evars>>

\* the platform has an arm: llvm_targets is bound and result starts None, lines 55-82
BeginPlatform ==
    /\ mpc = "loop"
    /\ si <= Len(sdks)
    /\ sdks[si] \in TablePlatforms
    /\ mpc' = "targets"
    /\ ti' = 1
    /\ mresult' = None
    /\ outs' = <<>>
    /\ diffs' = <<>>
    /\ UNCHANGED <<sdks, llvm_targets, si, curr_result, final_result, written,
                   configs, fatal, pvars, cvars,
                   dvars, xvars, evars>>

\* let curr_result = parse_sdk(..): lines 84-87
ParseTarget ==
    /\ mpc = "targets"
    /\ ti <= llvm_targets[sdks[si]]
    /\ \E unit \in Units :
         LET out == parse_sdk(unit, configs)
         IN  IF out.panic # ""
             THEN /\ mpc' = "panicked"
                  /\ fatal' = out.panic
                  /\ UNCHANGED <<curr_result, outs>>
             ELSE /\ mpc' = "parsed"
                  /\ curr_result' = out.result
                  /\ outs' = Append(outs, out.result)
                  /\ UNCHANGED fatal
    /\ UNCHANGED <<sdks, llvm_targets, si, ti, mresult, final_result, written, diffs,
                   configs, pvars, cvars,
                   dvars, xvars, evars>>

\* mutant of CompareOrKeep: a later target's result is dropped without a comparison
CompareOrKeepNoDiff ==
    /\ mpc = "parsed"
    /\ mresult' = IF mresult.some THEN mresult ELSE Some(curr_result)
    /\ mpc' = "targets"
    /\ ti' = ti + 1
    /\ UNCHANGED <<diffs, fatal>>
    /\ UNCHANGED <<sdks, llvm_targets, si, curr_result, final_result, written, outs,
                   configs, pvars, cvars,
                   dvars, xvars, evars>>

\* if let Some(prev_result) = &result { compare_results(..) } else { result = Some(..) }:
\* lines 89-93
CompareOrKeep ==
    /\ mpc = "parsed"
    /\ IF mresult.some
       THEN \E catches \in BOOLEAN :
              LET msg == compare_results(mresult.val, curr_result, catches)
              IN  /\ diffs' = Append(diffs, [target |-> ti, a |-> mresult.val,
                                             b |-> curr_result])
                  /\ fatal' = msg
                  /\ mpc' = IF msg = "" THEN "targets" ELSE "panicked"
                  /\ ti' = IF msg = "" THEN ti + 1 ELSE ti
                  /\ UNCHANGED mresult
       ELSE /\ mresult' = Some(curr_result)
            /\ mpc' = "targets"
            /\ ti' = ti + 1
            /\ UNCHANGED <<diffs, fatal>>
    /\ UNCHANGED <<sdks, llvm_targets, si, curr_result, final_result, written, outs,
                   configs, pvars, cvars,
                   dvars, xvars, evars>>

\* mutant of EndPlatform: every platform's result becomes the final result
EndPlatformAnyPlatform ==
    /\ mpc = "targets"
    /\ ti > llvm_targets[sdks[si]]
    /\ final_result' = mresult
    /\ si' = si + 1
    /\ mpc' = "loop"
    /\ UNCHANGED <<sdks, llvm_targets, ti, mresult, curr_result, written, outs, diffs,
                   configs, fatal, pvars, cvars, dvars, xvars, evars>>

\* the inner loop is over: lines 96-99
EndPlatform ==
    /\ mpc = "targets"
    /\ ti > llvm_targets[sdks[si]]
    /\ final_result' = IF sdks[si] = "MacOsX" THEN mresult ELSE final_result
    /\ si' = si + 1
    /\ mpc' = "loop"
    /\ UNCHANGED <<sdks, llvm_targets, ti, mresult, curr_result, written, outs, diffs,
                   configs, fatal, pvars, cvars,
                   dvars, xvars, evars>>

\* mutant of BeginOutput: the output starts while platforms are still to be parsed
BeginOutputEarly ==
    /\ mpc = "loop"
    /\ IF final_result.some
       THEN mpc' = "writing" /\ UNCHANGED fatal
       ELSE mpc' = "panicked" /\ fatal' = "got a result"
    /\ UNCHANGED <<sdks, llvm_targets, si, ti, mresult, curr_result, final_result, written,
                   outs, diffs, configs, pvars, cvars, dvars, xvars, evars>>

\* final_result.expect("got a result"): line 102
BeginOutput ==
    /\ mpc = "loop"
    /\ si > Len(sdks)
    /\ IF final_result.some
       THEN mpc' = "writing" /\ UNCHANGED fatal
       ELSE mpc' = "panicked" /\ fatal' = "got a result"
    /\ UNCHANGED <<sdks, llvm_targets, si, ti, mresult, curr_result, final_result, written,
                   outs, diffs, configs, pvars, cvars,
                   dvars, xvars, evars>>

\* the libraries of final_result not written yet, in iteration order
ToWrite == SelectSeq(LibraryOrder,
                     LAMBDA l : l \in DOMAIN final_result.val /\ l \notin written)

\* files.output(&output_path).unwrap() for the next library: lines 102-107
WriteFramework ==
    /\ mpc = "writing"
    /\ ToWrite # <<>>
    /\ \E ok \in BOOLEAN :
         IF ok
         THEN written' = written \cup {Head(ToWrite)} /\ UNCHANGED <<mpc, fatal>>
         ELSE mpc' = "panicked" /\ fatal' = "output" /\ UNCHANGED written
    /\ UNCHANGED <<sdks, llvm_targets, si, ti, mresult, curr_result, final_result,
                   outs, diffs, configs, pvars, cvars,
                   dvars, xvars, evars>>

\* run_cargo_fmt("icrate"): lines 109-110
Format ==
    /\ mpc = "writing"
    /\ ToWrite = <<>>
    /\ mpc' = "done"
    /\ UNCHANGED <<sdks, llvm_targets, si, ti, mresult, curr_result, final_result, written,
                   outs, diffs, configs, fatal, pvars, cvars,
                   dvars, xvars, evars>>

(***************************************************************************)
(* main: the SDK discovery, lines 29-47                                    *)
(***************************************************************************)
\* the platforms of a developer directory, in the order platforms() lists them
PlatformDirs ==
    <<"AppleTvOs", "AppleTvSimulator", "DriverKit", "IPhoneOs", "IPhoneSimulator",
      "MacOsX", "WatchOs", "WatchSimulator">>

\* assert_eq!(sdks.len(), 8, ..)
ExpectedSdks == 8

\* a platform that is not p
OtherPlatform(p) == IF p = "MacOsX" THEN "IPhoneOs" ELSE "MacOsX"

\* what platform.find_sdks::<SimpleSdk>() may return for the directory of platform p
Candidates(p) ==
    SeqsUpTo([symlink : BOOLEAN, platform : {p, OtherPlatform(p)}], MaxCandidates)

\* mutant of FilterSdks: symlinked candidates are kept
FilterSdksKeepsSymlinks(found, platform) ==
    SelectSeq(found, LAMBDA sdk : sdk.platform = platform)

\* .filter(|sdk| !sdk.is_symlink() && sdk.platform() == &*platform)
FilterSdks(found, platform) ==
    SelectSeq(found, LAMBDA sdk : ~sdk.symlink /\ sdk.platform = platform)

\* main before the discovery
InitSdks ==
    /\ mpc = "discover"
    /\ dirs \in { SubSeq(PlatformDirs, 1, n) : n \in (ExpectedSdks - 1)..ExpectedSdks }
    /\ di = 1
    /\ cands = <<>>
    /\ dfatal = ""
    /\ sdks = <<>>
    /\ llvm_targets \in [TablePlatforms -> 0..MaxTargets]
    /\ si = 1
    /\ ti = 0
    /\ mresult = None
    /\ curr_result = <<>>
    /\ final_result = None
    /\ written = {}
    /\ outs = <<>>
    /\ diffs = <<>>

\* the closure of .map(|platform| ..) runs on the next platform: lines 33-44
FindSdk ==
    /\ mpc = "discover"
    /\ di <= Len(dirs)
    /\ \E found \in Candidates(dirs[di]) :
         LET kept == FilterSdks(found, dirs[di])
         IN  /\ cands' = found
             /\ IF Len(kept) # 1
                THEN /\ mpc' = "panicked"
                     /\ fatal' = "found multiple sdks"
                     /\ dfatal' = dirs[di]
                     /\ UNCHANGED <<sdks, di>>
                ELSE /\ sdks' = Append(sdks, kept[1].platform)
                     /\ di' = di + 1
                     /\ UNCHANGED <<mpc, fatal, dfatal>>
    /\ UNCHANGED <<dirs, llvm_targets, si, ti, mresult, curr_result, final_result, written,
                   outs, diffs, configs, pvars, cvars, xvars, evars>>

\* the map is collected, its closure's candidates are gone, and
\* assert_eq!(sdks.len(), 8, "should have one of each platform"): lines 45-47
CheckSdks ==
    /\ mpc = "discover"
    /\ di > Len(dirs)
    /\ cands' = <<>>
    /\ IF Len(sdks) = ExpectedSdks
       THEN mpc' = "loop" /\ UNCHANGED fatal
       ELSE mpc' = "panicked" /\ fatal' = "should have one of each platform"
    /\ UNCHANGED <<sdks, llvm_targets, si, ti, mresult, curr_result, final_result, written,
                   outs, diffs, configs, pvars, cvars, dirs, di, dfatal, xvars, evars>>

(***************************************************************************)
(* extract_framework_name applied to one entity                            *)
(***************************************************************************)
\* the path components the source locations are built from
PathComponents ==
    { <<"Foo", ".", "framework">>, <<"Foo">>, <<"Headers">>, <<"Bar", ".", "h">>,
      <<"Bar">>, <<"Bar", ".", "tar", ".", "gz">>, <<".", "hidden">>, <<".", ".">> }

\* the directories the source locations lie under
PathRoots ==
    { FrameworkDir,
      << <<"sdk">>, <<"System">>, <<"Library">> >>,
      << <<"usr">>, <<"include">> >> }

\* entity.get_location() and its file, for the entities of a translation unit
ExtractLocations ==
    { None, Some([file |-> None]) }
    \cup { At(root \o rest) : root \in PathRoots,
                               rest \in SeqsUpTo(PathComponents, MaxPathLen) }

InitExtract ==
    /\ xentity \in [location : ExtractLocations]
    /\ xret = [done |-> FALSE]

\* extract_framework_name(&entity, &framework_dir) runs: lines 276-307
Extract ==
    /\ ~xret.done
    /\ xret' = [done |-> TRUE, out |-> extract_framework_name(xentity, FrameworkDir)]
    /\ UNCHANGED <<xentity, configs, fatal, pvars, cvars, mvars, dvars, evars>>

(***************************************************************************)
(* NSFastEnumerator (src/enumerator.rs).  The collection holds the         *)
(* elements 1..n in this order; a pointer is null or a region and an       *)
(* offset into it: "buf" is the enumerator's buffer, "store" the           *)
(* collection's own storage, "object" the cell of its mutation counter.    *)
(* 0 is the null element pointer.                                          *)
(***************************************************************************)
\* const FAST_ENUM_BUF_SIZE: usize = 16
FAST_ENUM_BUF_SIZE == 16

Ptr(region, off) == [region |-> region, off |-> off]

\* ptr.offset(k)
Offset(p, k) == IF p = Null THEN Null ELSE [p EXCEPT !.off = @ + k]

\* NSFastEnumerator::new(object): lines 62-72
new(obj) ==
    [object |-> obj,
     ptr |-> Null,
     end |-> Null,
     state |-> [state |-> 0, items_ptr |-> Null, mutations_ptr |-> Null],
     buf |-> [i \in 0..(FAST_ENUM_BUF_SIZE - 1) |-> 0]]

\* what the collection may do in one countByEnumeratingWithState call that is
\* handed a buffer of len slots: deliver the next k elements (one, a buffer
\* full, or all that are left), through the buffer or from its own storage,
\* and change its mutation counter or not
BatchChoices(obj, st, len) ==
    LET rest == obj.n - st.state
    IN  IF rest = 0
        THEN { [k |-> 0, viaBuf |-> FALSE, bump |-> FALSE] }
        ELSE { c \in [k : {1, IF rest < len THEN rest ELSE len, rest},
                      viaBuf : BOOLEAN, bump : BOOLEAN] :
                 /\ c.viaBuf => c.k <= len
                 /\ c.bump => obj.mutations < MaxMutations }

\* [object countByEnumeratingWithState:&state objects:buffer count:len], for a
\* collection that hands out its elements in order, batch after batch
countByEnumeratingWithState(obj, st, buffer, len, c) ==
    [count |-> c.k,
     object |-> [obj EXCEPT !.mutations = IF c.bump THEN @ + 1 ELSE @],
     state |-> IF c.k = 0 THEN st
               ELSE [state |-> st.state + c.k,
                     items_ptr |-> IF c.viaBuf THEN Ptr("buf", 0)
                                   ELSE Ptr("store", st.state),
                     mutations_ptr |-> Ptr("object", 0)],
     buf |-> IF c.viaBuf
             THEN [i \in DOMAIN buffer |->
                     IF i < c.k THEN st.state + i + 1 ELSE buffer[i]]
             ELSE buffer]

\* the values a read through element pointer p may give: the slot's value, or
\* anything when p is null or points past its region
Loads(self, p) ==
    IF p.region = "buf" /\ p.off \in DOMAIN self.buf THEN {self.buf[p.off]}
    ELSE IF p.region = "store" /\ p.off \in 0..(self.object.n - 1) THEN {p.off + 1}
    ELSE 0..self.object.n

\* the values *self.state.mutations_ptr may give
LoadMutations(self) ==
    IF self.state.mutations_ptr = Ptr("object", 0) THEN {self.object.mutations}
    ELSE 0..MaxMutations

\* mutant of update_buf: the assert! on the mutations value is missing
update_buf_no_assert(self, c, before) ==
    LET call == countByEnumeratingWithState(self.object, self.state, self.buf,
                                            FAST_ENUM_BUF_SIZE, c)
        called == [self EXCEPT !.object = call.object, !.state = call.state,
                               !.buf = call.buf]
    IN  IF call.count > 0
        THEN [self |-> [called EXCEPT !.ptr = call.state.items_ptr,
                                      !.end = Offset(call.state.items_ptr, call.count)],
              ret |-> TRUE, panic |-> "", count |-> call.count]
        ELSE [self |-> [called EXCEPT !.ptr = Null, !.end = Null],
              ret |-> FALSE, panic |-> "", count |-> call.count]

\* mutant of update_buf: an empty batch leaves ptr and end as they were
update_buf_keeps_pointers(self, c, before) ==
    LET mutations == IF self.ptr # Null THEN Some(before) ELSE None
        call == countByEnumeratingWithState(self.object, self.state, self.buf,
                                            FAST_ENUM_BUF_SIZE, c)
        called == [self EXCEPT !.object = call.object, !.state = call.state,
                               !.buf = call.buf]
    IN  IF call.count > 0
        THEN IF mutations.some /\ mutations.val \notin LoadMutations(called)
             THEN [self |-> called, ret |-> FALSE, panic |-> "Mutation detected",
                   count |-> call.count]
             ELSE [self |-> [called EXCEPT !.ptr = call.state.items_ptr,
                                           !.end = Offset(call.state.items_ptr,
                                                          call.count)],
                   ret |-> TRUE, panic |-> "", count |-> call.count]
        ELSE [self |-> called, ret |-> FALSE, panic |-> "", count |-> call.count]

\* update_buf(&mut self), lines 74-105; c is what the collection does in the
\* call and `before` the value read through mutations_ptr ahead of it
update_buf(self, c, before) ==
    LET mutations == IF self.ptr # Null THEN Some(before) ELSE None
        call == countByEnumeratingWithState(self.object, self.state, self.buf,
                                            FAST_ENUM_BUF_SIZE, c)
        called == [self EXCEPT !.object = call.object, !.state = call.state,
                               !.buf = call.buf]
    IN  IF call.count > 0
        THEN IF mutations.some /\ mutations.val \notin LoadMutations(called)
             THEN [self |-> called, ret |-> FALSE, panic |-> "Mutation detected",
                   count |-> call.count]
             ELSE [self |-> [called EXCEPT !.ptr = call.state.items_ptr,
                                           !.end = Offset(call.state.items_ptr,
                                                          call.count)],
                   ret |-> TRUE, panic |-> "", count |-> call.count]
        ELSE [self |-> [called EXCEPT !.ptr = Null, !.end = Null],
              ret |-> FALSE, panic |-> "", count |-> call.count]

\* mutant of next: the batch is refilled only after reading one slot past its end
next_reads_past_end(self, c, before) ==
    LET refills == self.ptr = Offset(self.end, 1) \/ self.ptr = Null
        upd == update_buf(self, c, before)
    IN  IF refills /\ upd.panic # ""
        THEN [self |-> upd.self, panic |-> upd.panic, deref |-> Null,
              called |-> TRUE, count |-> upd.count]
        ELSE IF refills /\ ~upd.ret
        THEN [self |-> upd.self, panic |-> "", deref |-> Null,
              called |-> TRUE, count |-> upd.count]
        ELSE LET now == IF refills THEN upd.self ELSE self
             IN  [self |-> [now EXCEPT !.ptr = Offset(now.ptr, 1)],
                  panic |-> "", deref |-> now.ptr,
                  called |-> refills, count |-> IF refills THEN upd.count ELSE 0]

\* Iterator::next(&mut self), lines 111-121: deref is the pointer read
\* through, null when None is returned
next(self, c, before) ==
    LET refills == self.ptr = self.end
        upd == update_buf(self, c, before)
    IN  IF refills /\ upd.panic # ""
        THEN [self |-> upd.self, panic |-> upd.panic, deref |-> Null,
              called |-> TRUE, count |-> upd.count]
        ELSE IF refills /\ ~upd.ret
        THEN [self |-> upd.self, panic |-> "", deref |-> Null,
              called |-> TRUE, count |-> upd.count]
        ELSE LET now == IF refills THEN upd.self ELSE self
             IN  [self |-> [now EXCEPT !.ptr = Offset(now.ptr, 1)],
                  panic |-> "", deref |-> now.ptr,
                  called |-> refills, count |-> IF refills THEN upd.count ELSE 0]

\* the enumerator's fields
Self == [object |-> object, ptr |-> ptr, end |-> end, state |-> state, buf |-> buf]

\* a collection of n elements and its enumerator, object.enumerator(): lines 36-38
InitEnum ==
    /\ \E n \in 0..MaxItems :
         LET it == new([n |-> n, mutations |-> 0])
         IN  /\ object = it.object
             /\ state = it.state
             /\ ptr = it.ptr
             /\ end = it.end
             /\ buf = it.buf
    /\ epc = "iterating"
    /\ yielded = <<>>
    /\ refill = [op |-> "new", called |-> FALSE, held |-> FALSE, count |-> 0, batch |-> 0]
    /\ deref = Null

\* the consumer calls next(): lines 111-121, update_buf included
NextItem ==
    /\ epc \in {"iterating", "exhausted"}
    /\ \E c \in IF ptr = end THEN BatchChoices(object, state, FAST_ENUM_BUF_SIZE)
                ELSE { [k |-> 0, viaBuf |-> FALSE, bump |-> FALSE] } :
         \E before \in LoadMutations(Self) :
            LET out == next(Self, c, before)
            IN  /\ object' = out.self.object
                /\ state' = out.self.state
                /\ ptr' = out.self.ptr
                /\ end' = out.self.end
                /\ buf' = out.self.buf
                /\ deref' = out.deref
                /\ refill' = [op |-> "next", called |-> out.called,
                              held |-> out.called /\ ptr # Null,
                              count |-> out.count,
                              batch |-> IF out.count > 0 THEN out.count
                                        ELSE refill.batch]
                /\ IF out.panic # ""
                   THEN epc' = "panicked" /\ fatal' = out.panic /\ UNCHANGED yielded
                   ELSE IF out.deref = Null
                   THEN epc' = "exhausted" /\ UNCHANGED <<fatal, yielded>>
                   ELSE /\ epc' = "iterating"
                        /\ UNCHANGED fatal
                        /\ \E obj \in Loads(out.self, out.deref) :
                             yielded' = Append(yielded, obj)
    /\ UNCHANGED <<configs, pvars, cvars, mvars, dvars, xvars>>

\* the collection is mutated while the consumer holds a batch
Mutate ==
    /\ epc \in {"iterating", "exhausted"}
    /\ object.mutations < MaxMutations
    /\ object' = [object EXCEPT !.mutations = @ + 1]
    /\ refill' = [refill EXCEPT !.op = "mutate", !.called = FALSE, !.held = FALSE,
                                !.count = 0]
    /\ UNCHANGED <<state, ptr, end, buf, epc, yielded, deref,
                   configs, fatal, pvars, cvars, mvars, dvars, xvars>>

\* compare_results is not running
IdleCompare ==
    /\ data1 = <<>>
    /\ data2 = <<>>
    /\ cmp = [done |-> FALSE, panic |-> ""]

\* main is not running
IdleMain ==
    /\ mpc = "off"
    /\ sdks = <<>>
    /\ llvm_targets = <<>>
    /\ si = 0
    /\ ti = 0
    /\ mresult = None
    /\ curr_result = <<>>
    /\ final_result = None
    /\ written = {}
    /\ outs = <<>>
    /\ diffs = <<>>

\* parse_sdk is not running
IdleParse ==
    /\ pc = "idle"
    /\ preprocessing = TRUE
    /\ result = <<>>
    /\ cur = NoEntity
    /\ nvisited = 0
    /\ ncalls = 0
    /\ entered = <<>>
    /\ created = <<>>
    /\ parsed = <<>>

\* the SDK discovery is not running
IdleSdks ==
    /\ dirs = <<>>
    /\ di = 0
    /\ cands = <<>>
    /\ dfatal = ""

\* extract_framework_name is not running
IdleExtract ==
    /\ xentity = NoEntity
    /\ xret = [done |-> FALSE]

\* no NSFastEnumerator exists
IdleEnum ==
    /\ object = <<>>
    /\ state = <<>>
    /\ ptr = Null
    /\ end = Null
    /\ buf = <<>>
    /\ epc = "off"
    /\ yielded = <<>>
    /\ refill = <<>>
    /\ deref = Null

Init == InitParse /\ IdleCompare /\ IdleMain /\ IdleSdks /\ IdleExtract /\ IdleEnum

Next == ParseStart \/ Visit \/ ParseReturn

\* one process calling parse_sdk, entity by entity
Spec == Init /\ [][Next]_vars

InitCmp ==
    /\ InitCompare
    /\ IdleParse
    /\ IdleMain
    /\ IdleSdks
    /\ IdleExtract
    /\ IdleEnum
    /\ configs = Frameworks
    /\ fatal = ""

NextCmp == Compare

\* compare_results applied to two maps
SpecCompare == InitCmp /\ [][NextCmp]_vars

InitRun ==
    /\ InitMain
    /\ IdleParse
    /\ IdleCompare
    /\ IdleSdks
    /\ IdleExtract
    /\ IdleEnum
    /\ configs \in {{Foo}, Frameworks}
    /\ fatal = ""

NextRun ==
    \/ SkipPlatform
    \/ BeginPlatform
    \/ ParseTarget
    \/ CompareOrKeep
    \/ EndPlatform
    \/ BeginOutput
    \/ WriteFramework
    \/ Format

\* one run of main, with parse_sdk and compare_results as single steps
SpecMain == InitRun /\ [][NextRun]_vars

InitDiscovery ==
    /\ InitSdks
    /\ IdleParse
    /\ IdleCompare
    /\ IdleExtract
    /\ IdleEnum
    /\ configs \in {{Foo}, Frameworks}
    /\ fatal = ""

NextDiscovery == FindSdk \/ CheckSdks \/ NextRun

InitPath ==
    /\ InitExtract
    /\ IdleParse
    /\ IdleCompare
    /\ IdleMain
    /\ IdleSdks
    /\ IdleEnum
    /\ configs = Frameworks
    /\ fatal = ""

NextPath == Extract

\* extract_framework_name applied to one entity
SpecExtract == InitPath /\ [][NextPath]_vars

InitIter ==
    /\ InitEnum
    /\ IdleParse
    /\ IdleCompare
    /\ IdleMain
    /\ IdleSdks
    /\ IdleExtract
    /\ configs = Frameworks
    /\ fatal = ""

NextIter == NextItem \/ Mutate

\* one NSFastEnumerator over one collection
SpecEnum == InitIter /\ [][NextIter]_vars

\* one run of main from the SDK discovery on
SpecSdks == InitDiscovery /\ [][NextDiscovery]_vars

(***************************************************************************)
(* Vocabulary of the properties                                            *)
(***************************************************************************)
HeaderNames == {Foo, Bar, Baz}

Decl == "ObjCInterfaceDecl"

\* the inclusion name "<fw>/<header>.h"
IncName(fw, header) == Some(fw \o <<"/">> \o header \o <<".", "h">>)

\* entity e lies in header `header` of framework fw
InHeader(e, fw, header) == e.location = At(HeaderPath(fw, header))

\* entity e lies in some header of framework fw
InFramework(e, fw) == \E x \in HeaderNames : InHeader(e, fw, x)

\* this step is one run of the callback
DispatchStep == pc = "visiting" /\ nvisited' = nvisited + 1

\* the Stmts of file f of library l in model res
StmtsOf(res, l, f) == res[l].files[f].stmts

\* the <<library, file>> pairs of model res
FileKeys(res) == UNION { { <<l, f>> : f \in DOMAIN res[l].files } : l \in DOMAIN res }

(***************************************************************************)
(* C1: within one parse_sdk traversal the phase starts as Preprocessing    *)
(* and is one-way: once it is Declarations it is Declarations after every  *)
(* later entity; every new parse_sdk call starts in Preprocessing.         *)
(***************************************************************************)
C1_PhaseOneWay ==
    [][ /\ (pc = "visiting" /\ ~preprocessing => ~preprocessing')
        /\ (ncalls' # ncalls => pc' = "visiting" /\ preprocessing') ]_vars

C1_Witness ==
    /\ ncalls = 2
    /\ pc = "visiting"
    /\ ~preprocessing
    /\ cur.kind \in PreKinds
    /\ InFramework(cur, Foo)
    /\ Foo \in configs

(***************************************************************************)
(* C2: in phase Preprocessing an inclusion directive L/H.h located in      *)
(* configured framework L, H # L, dispatched when Library L already has a  *)
(* File keyed H, leaves the whole model unchanged; the File for (L, H) is  *)
(* created exactly once however often the inclusion is repeated.           *)
(***************************************************************************)
C2_Repeated(e, res, cfgs) ==
    /\ e.kind = "InclusionDirective"
    /\ \E l \in cfgs, h \in HeaderNames :
         /\ h # l
         /\ e.name = IncName(l, h)
         /\ InFramework(e, l)
         /\ h \in DOMAIN res[l].files

C2_InclusionIdempotent ==
    /\ [](\A k \in DOMAIN entered : k \in DOMAIN created /\ created[k] = 1)
    /\ [][ DispatchStep /\ preprocessing /\ C2_Repeated(cur', result, configs)
           => /\ result' = result
              /\ preprocessing'
              /\ pc' = "visiting"
              /\ created' = created ]_vars

C2_Witness ==
    /\ pc = "visiting"
    /\ cur.kind = "InclusionDirective"
    /\ cur.name = IncName(Foo, Bar)
    /\ InHeader(cur, Foo, Bar)
    /\ <<Foo, Bar>> \in DOMAIN entered
    /\ entered[<<Foo, Bar>>] >= 2
    /\ created[<<Foo, Bar>>] = 1
    /\ DOMAIN result[Foo].files = {Bar}

(***************************************************************************)
(* C3: a self-named (umbrella) inclusion never creates a File: no Library  *)
(* named L holds a File keyed L; with Config = {Foo}, the inclusion        *)
(* Foo/Bar.h located in Foo followed by one declaration located in Foo's   *)
(* Bar.h ends with libraries[Foo].files having exactly the key Bar,        *)
(* holding the Stmts produced for that declaration.                        *)
(***************************************************************************)
C3_NoSelfNamedFile ==
    /\ [](\A l \in DOMAIN result : l \notin DOMAIN result[l].files)
    /\ [][ /\ DispatchStep
           /\ configs = {Foo}
           /\ nvisited = 1
           /\ cur.kind = "InclusionDirective"
           /\ cur.name = IncName(Foo, Bar)
           /\ InFramework(cur, Foo)
           /\ cur'.kind = Decl
           /\ InHeader(cur', Foo, Bar)
           => /\ pc' = "visiting"
              /\ result' = (Foo :> [files |-> (Bar :> [stmts |-> cur'.stmts])]) ]_vars

C3_Witness ==
    /\ pc = "visiting"
    /\ preprocessing
    /\ Foo \in configs
    /\ cur.kind = "InclusionDirective"
    /\ cur.name = IncName(Foo, Foo)
    /\ InHeader(cur, Foo, Foo)
    /\ DOMAIN result[Foo].files = {}
    /\ entered = <<>>

(***************************************************************************)
(* C4: dispatching a macro-definition or macro-expansion entity while the  *)
(* phase is Preprocessing changes nothing: no File is created, no          *)
(* Statement is appended, and the phase stays Preprocessing.               *)
(***************************************************************************)
C4_MacroNoEffect ==
    [][ /\ DispatchStep
        /\ preprocessing
        /\ cur'.kind \in {"MacroExpansion", "MacroDefinition"}
        => /\ result' = result
           /\ preprocessing'
           /\ created' = created
           /\ parsed' = parsed
           /\ ((\E l \in Frameworks : InFramework(cur', l)) => pc' = "visiting") ]_vars

C4_Witness ==
    /\ pc = "visiting"
    /\ preprocessing
    /\ nvisited >= 1
    /\ cur.kind = "MacroDefinition"
    /\ InHeader(cur, Foo, Bar)
    /\ Foo \in configs
    /\ DOMAIN result[Foo].files = {}

(***************************************************************************)
(* C5: when an entity handled by the 'anything else' branch is attributed  *)
(* to a configured (libraryName, fileStem) for which no File exists in     *)
(* that Library, the parse aborts fatally: no File is created on demand    *)
(* and none of its Statements is appended to any File.                     *)
(***************************************************************************)
C5_MissingFileFatal ==
    [][ /\ DispatchStep
        /\ ~(preprocessing /\ cur'.kind \in PreKinds)
        /\ \E l \in configs, f \in HeaderNames :
             InHeader(cur', l, f) /\ f \notin DOMAIN result[l].files
        => /\ pc' = "panicked"
           /\ fatal' = "file"
           /\ result' = result
           /\ created' = created ]_vars

C5_Witness ==
    /\ pc = "panicked"
    /\ fatal = "file"
    /\ cur.kind = Decl
    /\ cur.stmts # <<>>
    /\ InHeader(cur, Foo, Bar)
    /\ configs = {Foo, Baz}
    /\ FileKeys(result) = {<<Baz, Bar>>}

(***************************************************************************)
(* C6: a File's Statement sequence mirrors AST encounter order: after any  *)
(* traversal prefix the Statements of File (L, F) are the concatenation,   *)
(* in traversal order, of the Statement lists produced for exactly the     *)
(* entities attributed to (L, F) that the declaration branch handled;      *)
(* each dispatch only appends at the tail.                                 *)
(***************************************************************************)
C6_IsPrefix(s, t) == Len(s) <= Len(t) /\ SubSeq(t, 1, Len(s)) = s

C6_StatementsMirrorOrder ==
    /\ [](pc # "idle" =>
            /\ DOMAIN parsed \subseteq FileKeys(result)
            /\ \A k \in FileKeys(result) :
                 StmtsOf(result, k[1], k[2]) =
                     IF k \in DOMAIN parsed THEN parsed[k] ELSE <<>>)
    /\ [][ DispatchStep =>
             \A k \in FileKeys(result) :
                /\ k \in FileKeys(result')
                /\ C6_IsPrefix(StmtsOf(result, k[1], k[2]),
                               StmtsOf(result', k[1], k[2])) ]_vars

C6_Witness ==
    /\ pc = "visiting"
    /\ nvisited = 3
    /\ <<Foo, Bar>> \in FileKeys(result)
    /\ StmtsOf(result, Foo, Bar) = <<"a", "b", "a">>

(***************************************************************************)
(* C7: no entity processed while the engine state is Preprocessing mutates *)
(* Statement content: a dispatch step that leaves the phase Preprocessing  *)
(* leaves every File's Statement sequence unchanged, in every reachable    *)
(* state whose phase is Preprocessing all Files have empty Statement       *)
(* sequences, and Statements are appended only by steps that put the phase *)
(* in Declarations.                                                        *)
(***************************************************************************)
C7_PreprocessingKeepsStatements ==
    /\ [](pc # "idle" /\ preprocessing =>
            \A k \in FileKeys(result) : StmtsOf(result, k[1], k[2]) = <<>>)
    /\ [][ DispatchStep =>
             \A k \in FileKeys(result') :
                \/ ~preprocessing'
                \/ StmtsOf(result', k[1], k[2]) =
                     IF k \in FileKeys(result) THEN StmtsOf(result, k[1], k[2])
                     ELSE <<>> ]_vars

C7_Witness ==
    /\ pc = "visiting"
    /\ preprocessing
    /\ nvisited = 3
    /\ FileKeys(result) = {<<Foo, Bar>>, <<Baz, Bar>>}
    /\ cur.kind = "MacroExpansion"
    /\ InHeader(cur, Foo, Bar)

(***************************************************************************)
(* C8: in every reachable state of a parse, and in the returned result,    *)
(* the set of Library keys is exactly the set of Config keys, a configured *)
(* framework with no content keeps an empty Library, and the Library       *)
(* lookup for an entity whose framework has a Config never fails.          *)
(***************************************************************************)
C8_LibrariesAreConfigs ==
    pc # "idle" => DOMAIN result = configs /\ fatal # "library"

C8_Witness ==
    /\ pc = "returned"
    /\ configs = {Foo, Baz}
    /\ DOMAIN result[Baz].files = {}
    /\ Bar \in DOMAIN result[Foo].files
    /\ StmtsOf(result, Foo, Bar) # <<>>

(***************************************************************************)
(* C9: compare_results(A, B) returns normally if and only if A and B have  *)
(* the same Library key set and, for every key, structurally equal         *)
(* Libraries (same File keys, same per-File Statement sequences); any      *)
(* difference aborts.                                                      *)
(***************************************************************************)
C9_SameLibraries(a, b) ==
    /\ DOMAIN a = DOMAIN b
    /\ \A l \in DOMAIN a :
         /\ DOMAIN a[l].files = DOMAIN b[l].files
         /\ \A f \in DOMAIN a[l].files : a[l].files[f].stmts = b[l].files[f].stmts

C9_CompareIffEqual ==
    cmp.done => (cmp.panic = "" <=> C9_SameLibraries(data1, data2))

\* B is A with one extra Statement in one File of one framework; the run aborts
C9_Witness ==
    /\ cmp.done
    /\ cmp.panic = "assertion failed: data1 == data2"
    /\ DOMAIN data1 = Frameworks
    /\ DOMAIN data2 = Frameworks
    /\ data1[Baz] = data2[Baz]
    /\ DOMAIN data1[Foo].files = {Bar}
    /\ DOMAIN data2[Foo].files = {Bar}
    /\ data1[Foo].files[Bar].stmts = <<>>
    /\ data2[Foo].files[Bar].stmts = <<"a">>

(***************************************************************************)
(* C10: for a platform with enabled target triples t1..tn processed in     *)
(* order, the model produced for each triple ti with i >= 2 is diffed      *)
(* against the result of the previous triple t(i-1) of that platform.      *)
(***************************************************************************)
\* target i of the current platform is past its comparison
C10_Handled(i) == i < ti \/ (i = ti /\ mpc # "parsed")

C10_DiffedAgainstPrevious ==
    \A i \in 2..Len(outs) :
       C10_Handled(i) =>
          /\ Len(diffs) >= i - 1
          /\ diffs[i - 1] = [target |-> i, a |-> outs[i - 1], b |-> outs[i]]

C10_Witness ==
    /\ mpc = "targets"
    /\ sdks[si] = "MacOsX"
    /\ ti = 4
    /\ Len(diffs) = 2
    /\ diffs[2].target = 3
    /\ Foo \in DOMAIN outs[3]
    /\ Bar \in DOMAIN outs[3][Foo].files
    /\ outs[3][Foo].files[Bar].stmts = <<"a">>

(***************************************************************************)
(* C11: SDK discovery succeeds for a platform only when exactly one        *)
(* candidate SDK remains after discarding symlinked candidates and         *)
(* candidates whose declared platform differs from the directory's         *)
(* platform; with zero or with two or more remaining candidates the run    *)
(* aborts with an error naming the platform, and this happens before any   *)
(* parse_sdk call of the run.                                              *)
(***************************************************************************)
\* how many candidates of found are real SDKs of platform p
C11_Remaining(found, p) ==
    Cardinality({ i \in DOMAIN found : ~found[i].symlink /\ found[i].platform = p })

C11_ExactlyOneSdk ==
    /\ [](mpc = "discover" \/ dfatal # ""
            => si = 1 /\ ti = 0 /\ outs = <<>> /\ ~mresult.some /\ written = {})
    /\ [][ mpc = "discover" /\ di <= Len(dirs)
           => IF C11_Remaining(cands', dirs[di]) = 1
              THEN /\ mpc' = "discover"
                   /\ fatal' = ""
                   /\ dfatal' = ""
                   /\ sdks' = Append(sdks, dirs[di])
                   /\ di' = di + 1
              ELSE /\ mpc' = "panicked"
                   /\ fatal' = "found multiple sdks"
                   /\ dfatal' = dirs[di] ]_vars
    /\ [][ mpc = "targets" /\ mpc' \in {"parsed", "panicked"}
           => /\ di = Len(dirs) + 1
              /\ Len(sdks) = Len(dirs)
              /\ \A i \in DOMAIN dirs : sdks[i] = dirs[i]
              /\ dfatal = "" ]_vars

\* the sixth platform has two real SDKs of its own: the run aborts naming it
C11_Witness ==
    /\ mpc = "panicked"
    /\ fatal = "found multiple sdks"
    /\ dfatal = "MacOsX"
    /\ Len(sdks) = 5
    /\ Len(cands) = 2
    /\ C11_Remaining(cands, "MacOsX") = 2
    /\ ti = 0

(***************************************************************************)
(* C12: extract_framework_name maps a source path of the form              *)
(* <frameworksRoot>/<X>.framework/<...>/<Y>.<ext> to (X, Y), e.g.          *)
(* <frameworksRoot>/Foo.framework/Headers/Bar.h to (Foo, Bar); every path  *)
(* that does not have frameworksRoot as a prefix (and every entity with no *)
(* file location) yields nothing; a path under frameworksRoot whose first  *)
(* component lacks the `.framework` suffix, or that has no component left  *)
(* to take a file stem from, fails hard instead of yielding a value or     *)
(* nothing.                                                                *)
(***************************************************************************)
\* path is root followed by at least one more component
C12_Under(path, root) ==
    /\ Len(path) > Len(root)
    /\ \A i \in 1..Len(root) : path[i] = root[i]

\* component c is <x>.<ext>, with x not empty and ext free of dots
C12_Named(c, x) ==
    /\ Len(x) >= 1
    /\ Len(c) = Len(x) + 2
    /\ \A i \in 1..Len(x) : c[i] = x[i]
    /\ c[Len(c) - 1] = "."
    /\ c[Len(c)] # "."

\* the name parts X and Y range over
C12_Names == { <<"Foo">>, <<"Bar">>, <<"Bar", ".", "tar">> }

C12_FrameworkAndStem ==
    xret.done =>
      LET loc == xentity.location
          out == xret.out
      IN  /\ (~loc.some \/ ~loc.val.file.some) => out = Ret(None)
          /\ (loc.some /\ loc.val.file.some) =>
                LET path == loc.val.file.val
                    k == Len(FrameworkDir)
                IN  /\ (\E i \in 1..k : Len(path) < i \/ path[i] # FrameworkDir[i])
                         => out = Ret(None)
                    /\ \A x, y \in C12_Names :
                          /\ C12_Under(path, FrameworkDir)
                          /\ Len(path) >= k + 2
                          /\ path[k + 1] = x \o <<".", "framework">>
                          /\ C12_Named(path[Len(path)], y)
                          => out = Ret(Some(<<x, y>>))
                    /\ (/\ C12_Under(path, FrameworkDir)
                        /\ \A x \in C12_Names \cup {<<>>} :
                              path[k + 1] # x \o <<".", "framework">>)
                         => out = Panic("framework fileending")
                    /\ (/\ Len(path) = k + 1
                        /\ C12_Under(path, FrameworkDir)
                        /\ \E x \in C12_Names : path[k + 1] = x \o <<".", "framework">>)
                         => out = Panic("path file stem")

\* <frameworksRoot>/Foo.framework/Headers/Bar.tar.gz is attributed to (Foo, Bar.tar)
C12_Witness ==
    /\ xret.done
    /\ xentity.location =
         At(FrameworkDir \o << <<"Foo", ".", "framework">>, <<"Headers">>,
                               <<"Bar", ".", "tar", ".", "gz">> >>)
    /\ xret.out = Ret(Some(<< <<"Foo">>, <<"Bar", ".", "tar">> >>))

(***************************************************************************)
(* C13: a platform mapped to zero target triples (an empty triple list or  *)
(* a platform absent from the table) is skipped without error: processing  *)
(* it performs no parse and no comparison, does not abort, and leaves the  *)
(* canonical final result unchanged; the result handed to the output stage *)
(* is the MacOsX platform's result wherever MacOsX occurs in the platform  *)
(* order.                                                                  *)
(***************************************************************************)
\* the platform the outer loop is at has no target triple to parse
C13_ZeroTriples ==
    /\ mpc \in {"loop", "targets"}
    /\ si <= Len(sdks)
    /\ (sdks[si] \in TablePlatforms => llvm_targets[sdks[si]] = 0)

C13_SkippedPlatform ==
    /\ [](mpc \in {"writing", "done"}
            => final_result.some /\ written \subseteq DOMAIN final_result.val)
    /\ [][ C13_ZeroTriples
           => /\ fatal' = fatal
              /\ final_result' = final_result
              /\ curr_result' = curr_result
              /\ written' = written
              /\ outs' \in {outs, <<>>}
              /\ diffs' \in {diffs, <<>>}
              /\ \/ mpc' = "targets" /\ si' = si
                 \/ mpc' = "loop" /\ si' = si + 1 ]_vars
    /\ [][ final_result' # final_result
           => /\ mpc = "targets"
              /\ mpc' = "loop"
              /\ sdks[si] = "MacOsX"
              /\ outs # <<>>
              /\ final_result' = Some(outs[1]) ]_vars

\* MacOsX came first, the two later platforms were skipped, its result is written
C13_Witness ==
    /\ mpc = "done"
    /\ sdks = <<"MacOsX", "AppleTvOs", "IPhoneOs">>
    /\ llvm_targets["IPhoneOs"] = 0
    /\ final_result.some
    /\ Foo \in DOMAIN final_result.val
    /\ Bar \in DOMAIN final_result.val[Foo].files
    /\ Foo \in written

(***************************************************************************)
(* C17: no framework output is written before every parse and every        *)
(* cross-target comparison of every platform of the run has completed      *)
(* successfully: a mismatch found on any platform, canonical or not,       *)
(* aborts the run with zero frameworks written, so partial output never    *)
(* exists.                                                                 *)
(***************************************************************************)
\* the panics of a parse_sdk call and of compare_results
C17_ParseOrCompareFailed == fatal \notin {"", "got a result", "output"}

C17_NoOutputBeforeAllChecked ==
    /\ [](written # {} => si > Len(sdks) /\ ~C17_ParseOrCompareFailed)
    /\ [](C17_ParseOrCompareFailed => mpc = "panicked" /\ written = {})
    /\ [][ mpc = "parsed" /\ mresult.some /\ mresult.val # curr_result
           => mpc' = "panicked" /\ written' = {} ]_vars
    /\ [][ mpc = "panicked" => FALSE ]_vars

\* the canonical platform passed, then a later platform's targets disagree
C17_Witness ==
    /\ mpc = "panicked"
    /\ si <= Len(sdks)
    /\ sdks[si] = "IPhoneOs"
    /\ final_result.some
    /\ Len(diffs) = 1
    /\ diffs[1].a # diffs[1].b
    /\ fatal = "assertion failed: data1 == data2"
    /\ written = {}

(***************************************************************************)
(* C15: in phase Preprocessing, every inclusion directive attributed to a  *)
(* configured framework whose included path is not exactly                 *)
(* <framework>/<header>.h (missing header component, header component      *)
(* without the `.h` suffix, or further path segments) is fatal, whichever  *)
(* framework the included path names.                                      *)
(***************************************************************************)
\* name is <fw>/<header>.h for a framework fw and a header name
C15_WellFormed(name) ==
    \E fw \in HeaderNames, h \in HeaderNames : Some(name) = IncName(fw, h)

\* the first segment of name is fw
C15_Names(name, fw) ==
    /\ Len(name) >= Len(fw)
    /\ SubSeq(name, 1, Len(fw)) = fw
    /\ Len(name) > Len(fw) => name[Len(fw) + 1] = "/"

\* the next entity is an inclusion directive with a name, located in configured l
C15_InclusionIn(l) ==
    /\ DispatchStep
    /\ preprocessing
    /\ cur'.kind = "InclusionDirective"
    /\ cur'.name.some
    /\ l \in configs
    /\ InFramework(cur', l)

\* the claim as stated: the shape is checked whatever the first segment is
C15_EveryMalformedFatal ==
    [][ \A l \in Frameworks :
          C15_InclusionIn(l) /\ ~C15_WellFormed(cur'.name.val)
          => pc' = "panicked" ]_vars

\* C15 as amended: the shape is checked only when the first segment of the
\* included path is the framework the directive is attributed to; every
\* other inclusion is ignored without a check
C15_OwnMalformedFatal ==
    [][ \A l \in Frameworks :
          C15_InclusionIn(l)
          => IF C15_Names(cur'.name.val, l)
             THEN ~C15_WellFormed(cur'.name.val)
                  => /\ pc' = "panicked"
                     /\ fatal' \in {"inclusion name has file",
                                    "inclusion name file is header",
                                    "invalid inclusion"}
                     /\ result' = result
             ELSE /\ pc' = "visiting"
                  /\ preprocessing'
                  /\ result' = result ]_vars

\* Foo/Bar.h/Sub.h, included from Foo's umbrella header, ends the parse
C15_Witness ==
    /\ pc = "panicked"
    /\ fatal = "invalid inclusion"
    /\ cur.kind = "InclusionDirective"
    /\ InHeader(cur, Foo, Foo)
    /\ cur.name = Some(<<"Foo", "/", "Bar", ".", "h", "/", "Sub", ".", "h">>)
    /\ preprocessing

(***************************************************************************)
(* C16: an entity that FrameworkLocator cannot attribute to a framework,   *)
(* or whose framework has no Config, is skipped entirely whatever its      *)
(* kind: dispatching it leaves every Library, File and Statement sequence  *)
(* unchanged and leaves the phase unchanged (a skipped true declaration    *)
(* does not end Preprocessing), and traversal continues with the next      *)
(* entity.                                                                 *)
(***************************************************************************)
\* entity e has no location, no file, or a file outside the framework directory
C16_Unattributed(e) ==
    \/ ~e.location.some
    \/ ~e.location.val.file.some
    \/ LET path == e.location.val.file.val
       IN  \E i \in 1..Len(FrameworkDir) : Len(path) < i \/ path[i] # FrameworkDir[i]

\* entity e lies in a framework that has no Config
C16_Unconfigured(e) == \E l \in Frameworks \ configs : InFramework(e, l)

C16_SkippedEntirely ==
    [][ DispatchStep /\ (C16_Unattributed(cur') \/ C16_Unconfigured(cur'))
        => /\ result' = result
           /\ preprocessing' = preprocessing
           /\ pc' = "visiting"
           /\ fatal' = fatal
           /\ created' = created
           /\ parsed' = parsed ]_vars

\* a declaration of unconfigured Baz is skipped and Preprocessing goes on
C16_Witness ==
    /\ pc = "visiting"
    /\ preprocessing
    /\ nvisited = 2
    /\ configs = {Foo}
    /\ cur.kind = Decl
    /\ InHeader(cur, Baz, Baz)
    /\ FileKeys(result) = {<<Foo, Bar>>}

(***************************************************************************)
(* C19: Files are created only in phase Preprocessing: once the phase is   *)
(* Declarations, the set of File keys of every Library stays fixed for the *)
(* rest of the parse, and an inclusion directive dispatched after the      *)
(* transition is handled as 'anything else' (it requires the File of its   *)
(* own source location to exist and never creates the File it names).      *)
(***************************************************************************)
C19_FilesOnlyInPreprocessing ==
    [][ DispatchStep
        => /\ (created' # created => preprocessing /\ preprocessing')
           /\ (~preprocessing => FileKeys(result') = FileKeys(result))
           /\ \A l \in configs, f \in HeaderNames :
                 /\ ~preprocessing
                 /\ cur'.kind = "InclusionDirective"
                 /\ InHeader(cur', l, f)
                 => IF f \in DOMAIN result[l].files
                    THEN /\ pc' = "visiting"
                         /\ StmtsOf(result', l, f) = StmtsOf(result, l, f) \o cur'.stmts
                    ELSE /\ pc' = "panicked"
                         /\ fatal' = "file"
                         /\ result' = result ]_vars

\* after a declaration, Foo/Baz.h is included from Bar.h: no File Baz appears
C19_Witness ==
    /\ pc = "visiting"
    /\ ~preprocessing
    /\ nvisited = 3
    /\ cur.kind = "InclusionDirective"
    /\ cur.name = IncName(Foo, Baz)
    /\ InHeader(cur, Foo, Bar)
    /\ FileKeys(result) = {<<Foo, Bar>>}
    /\ Len(StmtsOf(result, Foo, Bar)) >= 2

(***************************************************************************)
(* C14: iterating NSFastEnumerator over a collection of n elements that is *)
(* not mutated, delivered by countByEnumeratingWithState in successive     *)
(* batches (any n >= 0, including n larger than the 16-slot buffer),       *)
(* yields exactly n items: every element exactly once, in the collection's *)
(* order, followed by None.                                                *)
(***************************************************************************)
\* the first k elements of the collection, in its order
C14_Elements(k) == [i \in 1..k |-> i]

C14_EveryElementOnce ==
    /\ [](epc # "off" /\ object.mutations = 0
            => /\ epc # "panicked"
               /\ Len(yielded) <= object.n
               /\ yielded = C14_Elements(Len(yielded))
               /\ (epc = "exhausted" => yielded = C14_Elements(object.n)))
    /\ [][ refill'.op = "next" /\ object'.mutations = 0
           => IF Len(yielded) < object.n
              THEN epc' = "iterating" /\ yielded' = Append(yielded, Len(yielded) + 1)
              ELSE epc' = "exhausted" /\ yielded' = yielded ]_vars

\* 17 elements came as a full buffer and a batch of one, then None
C14_Witness ==
    /\ epc = "exhausted"
    /\ object = [n |-> 17, mutations |-> 0]
    /\ yielded = C14_Elements(17)
    /\ refill.batch = 1
    /\ buf[0] = 17
    /\ buf[FAST_ENUM_BUF_SIZE - 1] = 16

(***************************************************************************)
(* C18: NSFastEnumerator detects mutation between batches: on every refill *)
(* after the first (a previous batch was held), if the collection returns  *)
(* a non-empty batch and the value read through mutations_ptr differs from *)
(* the value recorded just before the refill, the enumerator panics with   *)
(* 'Mutation detected' and yields no item from the new batch; if the       *)
(* values are equal, enumeration continues.                                *)
(***************************************************************************)
\* this step is a next() whose refill brings a non-empty batch
C18_Refill == refill'.op = "next" /\ ptr = end /\ refill'.count > 0

C18_MutationDetected ==
    [][ C18_Refill
        => IF ptr # Null /\ object'.mutations # object.mutations
           THEN /\ epc' = "panicked"
                /\ fatal' = "Mutation detected"
                /\ yielded' = yielded
                /\ deref' = Null
           ELSE /\ epc' = "iterating"
                /\ fatal' = fatal
                /\ yielded' = Append(yielded, state.state + 1) ]_vars

\* the counter changed while the second batch was fetched
C18_Witness ==
    /\ epc = "panicked"
    /\ fatal = "Mutation detected"
    /\ refill.held
    /\ refill.count = 1
    /\ object = [n |-> 17, mutations |-> 1]
    /\ yielded = C14_Elements(16)

(***************************************************************************)
(* C20: NSFastEnumerator never reads outside the current batch: in every   *)
(* reachable state, ptr and end are either both null or satisfy            *)
(* items_ptr <= ptr <= end = items_ptr + count of the last non-empty       *)
(* batch; next() dereferences ptr only when ptr != end after a possible    *)
(* refill, and after a refill that returns count 0 both pointers are null  *)
(* and next() returns None without dereferencing.                          *)
(***************************************************************************)
\* pointer p lies in the batch that starts at first and has count slots
C20_InBatch(p, first, count) ==
    /\ p # Null
    /\ first # Null
    /\ p.region = first.region
    /\ first.off <= p.off
    /\ p.off < first.off + count

\* the slot p points to exists
C20_Allocated(p) ==
    \/ p.region = "buf" /\ p.off \in 0..(FAST_ENUM_BUF_SIZE - 1)
    \/ p.region = "store" /\ p.off \in 0..(object.n - 1)

C20_ReadsInsideBatch ==
    /\ [](epc \in {"iterating", "exhausted"}
            => \/ ptr = Null /\ end = Null
               \/ /\ ptr # Null
                  /\ end # Null
                  /\ state.items_ptr # Null
                  /\ ptr.region = state.items_ptr.region
                  /\ end.region = state.items_ptr.region
                  /\ state.items_ptr.off <= ptr.off
                  /\ ptr.off <= end.off
                  /\ end.off = state.items_ptr.off + refill.batch)
    /\ [][ refill'.op = "next"
           => /\ deref' # Null
                 => /\ deref' # end'
                    /\ C20_InBatch(deref', state'.items_ptr, refill'.batch)
                    /\ C20_Allocated(deref')
                    /\ ptr' = Offset(deref', 1)
              /\ refill'.called /\ refill'.count = 0
                 => /\ ptr' = Null
                    /\ end' = Null
                    /\ deref' = Null
                    /\ epc' = "exhausted"
                    /\ yielded' = yielded ]_vars

\* 16 elements read from the collection's storage, then an empty batch
C20_Witness ==
    /\ epc = "exhausted"
    /\ ptr = Null
    /\ end = Null
    /\ refill.called
    /\ refill.count = 0
    /\ refill.batch = 16
    /\ state.items_ptr = Ptr("store", 0)
    /\ Len(yielded) = 16

====
